---- MODULE Spec2Model ----
(***************************************************************************)
(* Terrain map generators generate_circle_map.py and                       *)
(* generate_square_map.py: the tile functions, generate_map,               *)
(* generate_thumbnail, create_manifest and the module-level scripts.       *)
(*                                                                         *)
(* Arithmetic.  The scripts compute in IEEE-754 doubles.  Every quantity   *)
(* they compare or truncate is a rational (or the square root of one) with *)
(* a small denominator, so the model computes with integers scaled by that *)
(* denominator:                                                            *)
(*    x - center_x            is held as  2*x - width      (twice it),     *)
(*    min(w,h) * 0.40 / 0.10  as 4*min/10 and min/10,                      *)
(*    min(w,h) * 0.44         as 11*min/25,                                *)
(*    math.sqrt(dx**2+dy**2)  through D2 = (2dx)^2 + (2dy)^2 = 4*dist^2.   *)
(* A double result differs from the exact one only where the exact value   *)
(* is an integer that rounding undershoots; for the expressions of these   *)
(* scripts that happens in int(normalized_dist * 25) alone (see            *)
(* TruncNormalized25), and the model reproduces it there.                  *)
(***************************************************************************)
EXTENDS Integers, Sequences, FiniteSets, TLC

VARIABLES
    topology,   \* which script runs: "circle" or "square"
    stage,      \* position in the module-level statements of the script
    gm,         \* frame of the active generate_map call
    th,         \* frame of the active generate_thumbnail call
    globals,    \* module-level names assigned so far |-> value
    dirs,       \* directories that exist
    files,      \* closed or open files of the output directory |-> content
    open,       \* names of the files that have an open handle
    stdout,     \* lines printed so far
    io,         \* file-system operations performed so far, in order
    pil         \* whether "from PIL import Image" succeeds; settled when it runs

vars == <<topology, stage, gm, th, globals, dirs, files, open, stdout, io, pil>>

----------------------------------------------------------------------------
(* Bounds of the model *)

\* generate_map is called with every width and height in 1..MaxDim
MaxDim == 10
\* generate_thumbnail is called with every map width and height in 1..MaxThumbDim
MaxThumbDim == 12
\* the side of the full-resolution map in the model of the module-level scripts,
\* standing for the scripts' 800 (see Scaled)
FullSize == 40

----------------------------------------------------------------------------
(* Integer helpers *)

Min(a, b) == IF a <= b THEN a ELSE b
Max(a, b) == IF a >= b THEN a ELSE b
Abs(a) == IF a >= 0 THEN a ELSE -a

RECURSIVE GCD(_, _)
GCD(a, b) == IF b = 0 THEN a ELSE GCD(b, a % b)

\* floor(sqrt(n)) for 0 <= n < 2^31, one bit of the root at a time
RECURSIVE ISqrtFrom(_, _, _)
ISqrtFrom(n, bit, acc) ==
    IF bit = 0 THEN acc
    ELSE LET c == acc + bit
         IN  IF c <= n \div c THEN ISqrtFrom(n, bit \div 2, c)
                              ELSE ISqrtFrom(n, bit \div 2, acc)
ISqrt(n) == ISqrtFrom(n, 32768, 0)

\* ceil(sqrt(n))
CeilSqrt(n) == LET r == ISqrt(n) IN IF r * r = n THEN r ELSE r + 1

\* ceil(a / b) for a >= 0, b > 0
CeilDiv(a, b) == (a + b - 1) \div b

\* Python's a | b and a & b on non-negative integers
RECURSIVE BitOr(_, _)
BitOr(a, b) ==
    IF a = 0 THEN b
    ELSE IF b = 0 THEN a
    ELSE 2 * BitOr(a \div 2, b \div 2) + (IF a % 2 = 1 \/ b % 2 = 1 THEN 1 ELSE 0)

RECURSIVE BitAnd(_, _)
BitAnd(a, b) ==
    IF a = 0 \/ b = 0 THEN 0
    ELSE 2 * BitAnd(a \div 2, b \div 2) + (IF a % 2 = 1 /\ b % 2 = 1 THEN 1 ELSE 0)

----------------------------------------------------------------------------
(* Terrain encoding, both scripts *)

LAND_BASE == 128
OCEAN_BASE == 32
SHORE_BIT == 64
MAG_MASK == 31

\* min(31, m)
Clamp31_off(m) == m
Clamp31(m) == IF m < 31 THEN m ELSE 31

----------------------------------------------------------------------------
(* generate_square_map.py: one tile of generate_map *)

\* 2 * chebyshev_distance = max(|2x - width|, |2y - height|)
Cheb2(width, height, x, y) == Max(Abs(2 * x - width), Abs(2 * y - height))

\* chebyshev_distance <= land_half_size, land_half_size = min(w,h) * 0.40:
\* c2/2 <= 4*min/10
Square_is_land_strict(width, height, x, y) ==
    5 * Cheb2(width, height, x, y) < 4 * Min(width, height)
Square_is_land_narrow(width, height, x, y) ==
    5 * Cheb2(width, height, x, y) <= 3 * Min(width, height)
Square_is_land(width, height, x, y) ==
    5 * Cheb2(width, height, x, y) <= 4 * Min(width, height)

\* chebyshev_distance <= crystal_zone_size, crystal_zone_size = min(w,h) * 0.10:
\* c2/2 <= min/10
Square_in_crystal_wide(width, height, x, y) ==
    5 * Cheb2(width, height, x, y) <= 2 * Min(width, height)
Square_in_crystal(width, height, x, y) ==
    5 * Cheb2(width, height, x, y) <= Min(width, height)

\* int(normalized_dist * 25), normalized_dist = 1 - distance / crystal_zone_size,
\* for c2 = 2*distance and m = min(w,h): exactly 25*(m - 5*c2)/m.  In doubles the
\* quotient distance/crystal_zone_size is rounded before it is subtracted from 1:
\* at the ratios 0.56, 0.68, 0.8 and 0.92 it is rounded up, 1 - ratio falls short
\* of 0.44, 0.32, 0.2 and 0.08, and the product with 25 falls short of 11, 8, 5
\* and 2, so int() yields 10, 7, 4 and 1.  At every other ratio reached by a tile
\* the double result is the exact floor.
TruncNormalized25(c2, m) ==
    LET n == 25 * (m - 5 * c2)
        q == n \div m
    IN  IF n % m = 0 /\ q \in {2, 5, 8, 11} THEN q - 1 ELSE q

\* int(distance_from_land / 50 * 20), distance_from_land = distance - land_half_size
\* = (5*c2 - 4*m)/10
Square_water_raw(c2, m) == (5 * c2 - 4 * m) \div 25

Square_crystal_raw_plus5(c2, m) == TruncNormalized25(c2, m) + 5
Square_crystal_raw(c2, m) == TruncNormalized25(c2, m) + 6

Square_magnitude(width, height, x, y) ==
    LET c2 == Cheb2(width, height, x, y)
        m  == Min(width, height)
    IN  IF Square_is_land(width, height, x, y)
        THEN IF Square_in_crystal(width, height, x, y)
             THEN Clamp31(Square_crystal_raw(c2, m))
             ELSE 0
        ELSE Clamp31(Square_water_raw(c2, m))

\* the value appended to terrain for tile (x, y)
Square_byte(width, height, x, y) ==
    IF Square_is_land(width, height, x, y)
    THEN BitOr(LAND_BASE, Square_magnitude(width, height, x, y))
    ELSE BitOr(OCEAN_BASE, Square_magnitude(width, height, x, y))

----------------------------------------------------------------------------
(* generate_circle_map.py: one tile of generate_map *)

\* 4 * distance^2 = (2x - width)^2 + (2y - height)^2
Dist2x4(width, height, x, y) ==
    (2 * x - width) * (2 * x - width) + (2 * y - height) * (2 * y - height)

\* distance <= radius, radius = min(w,h) * 0.44 = 11*min/25:
\* sqrt(D2)/2 <= 11*min/25, squared
Circle_is_land_strict(width, height, x, y) ==
    625 * Dist2x4(width, height, x, y) < 484 * Min(width, height) * Min(width, height)
Circle_is_land(width, height, x, y) ==
    625 * Dist2x4(width, height, x, y) <= 484 * Min(width, height) * Min(width, height)

\* int((radius - distance) / radius * 20) = 20 - ceil(20 * distance / radius)
\* = 20 - ceil(250 * sqrt(D2) / (11 * m)); the fraction 250/(11*m) is reduced
\* first so that the square under the root stays below 2^31
Circle_land_raw_rounded(d2, m) ==
    LET g == GCD(11 * m, 250)
        a == (11 * m) \div g
        b == 250 \div g
    IN  20 - (2 * ISqrt(b * b * d2) + a) \div (2 * a)
Circle_land_raw(d2, m) ==
    LET g == GCD(11 * m, 250)
        a == (11 * m) \div g
        b == 250 \div g
    IN  20 - CeilDiv(CeilSqrt(b * b * d2), a)

\* int((distance - radius) / 100 * 20) = floor((50*distance - 22*m) / 250),
\* 50 * distance = 25 * sqrt(D2)
Circle_water_raw(d2, m) == (ISqrt(625 * d2) - 22 * m) \div 250

Circle_magnitude(width, height, x, y) ==
    LET d2 == Dist2x4(width, height, x, y)
        m  == Min(width, height)
    IN  IF Circle_is_land(width, height, x, y)
        THEN Clamp31(Circle_land_raw(d2, m))
        ELSE Clamp31(Circle_water_raw(d2, m))

Circle_byte(width, height, x, y) ==
    IF Circle_is_land(width, height, x, y)
    THEN BitOr(LAND_BASE, Circle_magnitude(width, height, x, y))
    ELSE BitOr(OCEAN_BASE, Circle_magnitude(width, height, x, y))

----------------------------------------------------------------------------
(* generate_thumbnail: the colour of one pixel *)

ShoreLandColor == <<204, 203, 158>>
ShoreWaterColor == <<100, 143, 255>>

\* adj = int(220 - 2 * magnitude); (190, adj, 138)
PlainsColor(magnitude) == <<190, 220 - 2 * magnitude, 138>>

\* adj = int(2 * magnitude); (180 + adj // 4, 200 - adj, 130)
HighlandsColor(magnitude) ==
    LET adj == 2 * magnitude IN <<180 + adj \div 4, 200 - adj, 130>>

\* adj = 11 - magnitude - 10; each channel max(0, base + adj)
OceanColor(magnitude) ==
    LET adj == 11 - magnitude - 10
    IN  <<Max(0, 70 + adj), Max(0, 132 + adj), Max(0, 180 + adj)>>

LandColor(shoreline, magnitude) ==
    IF shoreline THEN ShoreLandColor
    ELSE IF magnitude < 10 THEN PlainsColor(magnitude)
    ELSE HighlandsColor(magnitude)

\* generate_circle_map.py: radius = min(tw,th) * 0.44 = 11*m/25, distance = sqrt(d2)/2
\*   distance > radius - 2   <=>  25*sqrt(d2) > 22*m - 100
\*   distance < radius + 3   <=>  25*sqrt(d2) < 22*m + 150
\*   int((distance - radius) / 20) = floor((25*sqrt(d2) - 22*m) / 1000)
Circle_pixel(target_width, target_height, x, y) ==
    LET d2 == Dist2x4(target_width, target_height, x, y)
        m  == Min(target_width, target_height)
    IN  IF Circle_is_land(target_width, target_height, x, y)
        THEN LandColor(22 * m - 100 < 0
                          \/ 625 * d2 > (22 * m - 100) * (22 * m - 100),
                       Clamp31(Circle_land_raw(d2, m)))
        ELSE IF 625 * d2 < (22 * m + 150) * (22 * m + 150)
             THEN ShoreWaterColor
             ELSE OceanColor(Min(10, (ISqrt(625 * d2) - 22 * m) \div 1000))

\* generate_square_map.py: land_half_size = min(tw,th) * 0.40 = 4*m/10, distance = c2/2
\*   int(distance_from_edge / land_half_size * 20) = floor(5*(4*m - 5*c2) / m)
\*   distance > land_half_size - 2   <=>  5*c2 > 4*m - 20
\*   distance < land_half_size + 3   <=>  5*c2 < 4*m + 30
\*   int((distance - land_half_size) / 20) = floor((5*c2 - 4*m) / 200)
Square_pixel(target_width, target_height, x, y) ==
    LET c2 == Cheb2(target_width, target_height, x, y)
        m  == Min(target_width, target_height)
    IN  IF Square_is_land(target_width, target_height, x, y)
        THEN LandColor(5 * c2 > 4 * m - 20,
                       Clamp31((5 * (4 * m - 5 * c2)) \div m))
        ELSE IF 5 * c2 < 4 * m + 30
             THEN ShoreWaterColor
             ELSE OceanColor(Min(10, (5 * c2 - 4 * m) \div 200))

PixelColor(topo, target_width, target_height, x, y) ==
    IF topo = "circle" THEN Circle_pixel(target_width, target_height, x, y)
                       ELSE Square_pixel(target_width, target_height, x, y)

\* src_width = map_width // 2
ThSrcDim_quarter(map_dim) == map_dim \div 4
ThSrcDim(map_dim) == map_dim \div 2

\* max(1, int(src * quality)), quality = qnum/qden
ThTargetDim(map_dim, qnum, qden) == Max(1, (ThSrcDim(map_dim) * qnum) \div qden)

----------------------------------------------------------------------------
(* The tile functions of the script that runs *)

IsLandTile(topo, width, height, x, y) ==
    IF topo = "circle" THEN Circle_is_land(width, height, x, y)
                       ELSE Square_is_land(width, height, x, y)

TileByte(topo, width, height, x, y) ==
    IF topo = "circle" THEN Circle_byte(width, height, x, y)
                       ELSE Square_byte(width, height, x, y)

\* the bytes the inner loop "for x in range(width)" appends for row y
GmRowBytes_transposed(topo, width, height, y) ==
    [i \in 1..width |-> TileByte(topo, width, height, y, i - 1)]
GmRowBytes(topo, width, height, y) ==
    [i \in 1..width |-> TileByte(topo, width, height, i - 1, y)]

\* the number of times the inner loop runs "land_count += 1" for row y
GmRowLand(topo, width, height, y) ==
    Cardinality({x \in 0..(width - 1) : IsLandTile(topo, width, height, x, y)})

\* bytes(terrain): the list's values as bytes; ValueError unless all are in range(256)
BytesOk(terrain) == \A i \in 1..Len(terrain) : terrain[i] \in 0..255
BytesOf_prefixed(terrain) == <<Len(terrain) % 256>> \o terrain
BytesOf(terrain) == terrain

----------------------------------------------------------------------------
(* Paths, frames, logs *)

OutputDir(topo) == IF topo = "circle" THEN "resources/maps/circlemap"
                                      ELSE "resources/maps/squaremap"

\* a path is <<directory, file name>>
Path(topo, name) == <<OutputDir(topo), name>>

NoFiles == [p \in {} |-> <<>>]

NoGlobals == [n \in {} |-> 0]

\* name = value at module level
Assign(g, name, value) ==
    [n \in DOMAIN g \cup {name} |-> IF n = name THEN value ELSE g[n]]

GmIdle == [pc |-> "idle", width |-> 0, height |-> 0, output_file |-> <<"", "">>,
           y |-> 0, terrain |-> <<>>, land_count |-> 0]

\* generate_map(width, height, output_file) entered: terrain = [], land_count = 0
GmEnter(width, height, output_file) ==
    [pc |-> "loop", width |-> width, height |-> height, output_file |-> output_file,
     y |-> 0, terrain |-> <<>>, land_count |-> 0]

ThIdle == [pc |-> "idle", map_width |-> 0, map_height |-> 0, output_file |-> <<"", "">>,
           qnum |-> 0, qden |-> 1, target_width |-> 0, target_height |-> 0,
           y |-> 0, pixels |-> <<>>, result |-> FALSE]

\* generate_thumbnail(map_width, map_height, output_file, quality) entered;
\* quality is the fraction qnum/qden
ThEnter(map_width, map_height, output_file, qnum, qden) ==
    [pc |-> "import", map_width |-> map_width, map_height |-> map_height,
     output_file |-> output_file, qnum |-> qnum, qden |-> qden,
     target_width |-> 0, target_height |-> 0, y |-> 0, pixels |-> <<>>,
     result |-> FALSE]

----------------------------------------------------------------------------
(* generate_map, one action per step of its body *)

\* one pass of "for y in range(height)": the whole inner loop over x
GmRow ==
    /\ gm.pc = "loop"
    /\ gm.y < gm.height
    /\ gm' = [gm EXCEPT
                !.terrain = @ \o GmRowBytes(topology, gm.width, gm.height, gm.y),
                !.land_count = @ + GmRowLand(topology, gm.width, gm.height, gm.y),
                !.y = @ + 1,
                !.pc = IF gm.y + 1 = gm.height THEN "open" ELSE "loop"]
    /\ UNCHANGED <<topology, stage, th, globals, dirs, files, open, stdout, io, pil>>

\* with open(output_file, 'wb') as f: the file is created or truncated
GmOpen ==
    /\ gm.pc = "open"
    /\ IF gm.output_file[1] \in dirs
       THEN /\ files' = [p \in DOMAIN files \cup {gm.output_file} |->
                            IF p = gm.output_file THEN <<>> ELSE files[p]]
            /\ open' = open \cup {gm.output_file}
            /\ io' = Append(io, <<"open", gm.output_file>>)
            /\ gm' = [gm EXCEPT !.pc = "write"]
       ELSE \* FileNotFoundError propagates
            /\ gm' = [gm EXCEPT !.pc = "raised"]
            /\ UNCHANGED <<files, open, io>>
    /\ UNCHANGED <<topology, stage, th, globals, dirs, stdout, pil>>

\* f.write(bytes(terrain))
GmWrite ==
    /\ gm.pc = "write"
    /\ IF BytesOk(gm.terrain)
       THEN /\ files' = [files EXCEPT ![gm.output_file] = @ \o BytesOf(gm.terrain)]
            /\ io' = Append(io, <<"write", gm.output_file>>)
            /\ gm' = [gm EXCEPT !.pc = "close"]
       ELSE \* ValueError: the with block closes the file, the error propagates
            /\ gm' = [gm EXCEPT !.pc = "raised"]
            /\ UNCHANGED <<files, io>>
    /\ UNCHANGED <<topology, stage, th, globals, dirs, open, stdout, pil>>

\* the with block ends: the file is closed
GmClose_leak ==
    /\ gm.pc = "close"
    /\ gm' = [gm EXCEPT !.pc = "print"]
    /\ UNCHANGED <<topology, stage, th, globals, dirs, files, open, stdout, io, pil>>
GmClose ==
    /\ gm.pc = "close"
    /\ open' = open \ {gm.output_file}
    /\ io' = Append(io, <<"close", gm.output_file>>)
    /\ gm' = [gm EXCEPT !.pc = "print"]
    /\ UNCHANGED <<topology, stage, th, globals, dirs, files, stdout, pil>>

\* print(f"Generated ..."); return land_count
GmPrint ==
    /\ gm.pc = "print"
    /\ stdout' = Append(stdout, <<"Generated", gm.output_file[2], gm.width, gm.height,
                                  gm.land_count>>)
    /\ gm' = [gm EXCEPT !.pc = "return"]
    /\ UNCHANGED <<topology, stage, th, globals, dirs, files, open, io, pil>>

----------------------------------------------------------------------------
(* generate_thumbnail, one action per step of its body *)

\* from PIL import Image succeeds; the target size is computed and
\* Image.new('RGB', (target_width, target_height), (0, 0, 0)) is created
ThImportOk ==
    /\ th.pc = "import"
    /\ pil \in {"unknown", "present"}
    /\ pil' = "present"
    /\ LET tw == ThTargetDim(th.map_width, th.qnum, th.qden)
           t_h == ThTargetDim(th.map_height, th.qnum, th.qden)
       IN  th' = [th EXCEPT !.target_width = tw, !.target_height = t_h,
                            !.pixels = [r \in 1..t_h |-> [c \in 1..tw |-> <<0, 0, 0>>]],
                            !.y = 0, !.pc = "loop"]
    /\ UNCHANGED <<topology, stage, gm, globals, dirs, files, open, stdout, io>>

\* ImportError: two lines are printed and False is returned
ThImportError_raises ==
    /\ th.pc = "import"
    /\ pil \in {"unknown", "absent"}
    /\ pil' = "absent"
    /\ th' = [th EXCEPT !.pc = "raised"]
    /\ UNCHANGED <<topology, stage, gm, globals, dirs, files, open, stdout, io>>
ThImportError ==
    /\ th.pc = "import"
    /\ pil \in {"unknown", "absent"}
    /\ pil' = "absent"
    /\ stdout' = stdout \o <<<<"Warning: PIL not installed, cannot generate thumbnail">>,
                            <<"Install with: pip install Pillow">>>>
    /\ th' = [th EXCEPT !.result = FALSE, !.pc = "return"]
    /\ UNCHANGED <<topology, stage, gm, globals, dirs, files, open, io>>

\* one pass of "for y in range(target_height)": row y of the image is coloured
ThRow ==
    /\ th.pc = "loop"
    /\ th.y < th.target_height
    /\ th' = [th EXCEPT
                !.pixels[th.y + 1] =
                    [c \in 1..th.target_width |->
                        PixelColor(topology, th.target_width, th.target_height,
                                   c - 1, th.y)],
                !.y = @ + 1,
                !.pc = IF th.y + 1 = th.target_height THEN "save" ELSE "loop"]
    /\ UNCHANGED <<topology, stage, gm, globals, dirs, files, open, stdout, io, pil>>

\* img.save(output_file, 'WEBP', quality=90): the file is opened, written and
\* closed inside the call
ThSave ==
    /\ th.pc = "save"
    /\ IF th.output_file[1] \in dirs
       THEN /\ files' = [p \in DOMAIN files \cup {th.output_file} |->
                            IF p = th.output_file
                            THEN [format |-> "WEBP", quality |-> 90,
                                  width |-> th.target_width,
                                  height |-> th.target_height,
                                  pixels |-> th.pixels]
                            ELSE files[p]]
            /\ io' = io \o <<<<"open", th.output_file>>, <<"write", th.output_file>>,
                            <<"close", th.output_file>>>>
            /\ th' = [th EXCEPT !.pc = "print"]
       ELSE /\ th' = [th EXCEPT !.pc = "raised"]
            /\ UNCHANGED <<files, io>>
    /\ UNCHANGED <<topology, stage, gm, globals, dirs, open, stdout, pil>>

\* print(f"Generated thumbnail: ..."); return True
ThPrint ==
    /\ th.pc = "print"
    /\ stdout' = Append(stdout, <<"Generated thumbnail", th.output_file[2],
                                  th.target_width, th.target_height>>)
    /\ th' = [th EXCEPT !.result = TRUE, !.pc = "return"]
    /\ UNCHANGED <<topology, stage, gm, globals, dirs, files, open, io, pil>>

----------------------------------------------------------------------------
(* generate_map called on its own with every small width and height *)

GenDims == ((1..MaxDim) \X (1..MaxDim)) \cup {<<1, 322>>, <<25, 26>>, <<50, 50>>}

InitGen ==
    /\ topology \in {"circle", "square"}
    /\ stage = "caller"
    /\ \E d \in GenDims : gm = GmEnter(d[1], d[2], Path(topology, "map.bin"))
    /\ th = ThIdle
    /\ globals = NoGlobals
    /\ dirs = {OutputDir(topology)}
    /\ files = NoFiles
    /\ open = {}
    /\ stdout = <<>>
    /\ io = <<>>
    /\ pil = "unknown"

\* the caller receives the returned land_count
GenReturn ==
    /\ stage = "caller"
    /\ gm.pc = "return"
    /\ globals' = Assign(globals, "land_tiles", gm.land_count)
    /\ gm' = GmIdle
    /\ stage' = "done"
    /\ UNCHANGED <<topology, th, dirs, files, open, stdout, io, pil>>

NextGen == GmRow \/ GmOpen \/ GmWrite \/ GmClose \/ GmPrint \/ GenReturn

SpecGen == InitGen /\ [][NextGen]_vars

----------------------------------------------------------------------------
(* generate_thumbnail called on its own with small maps and several qualities *)

\* quality as <<numerator, denominator>>; 1/2 is the default
Qualities == {<<1, 10>>, <<1, 2>>, <<1, 1>>, <<2, 1>>}

\* <<map_width, map_height, quality>>: every small map at every quality, and the
\* call the scripts make
ThumbCalls ==
    ((1..MaxThumbDim) \X (1..MaxThumbDim) \X Qualities) \cup {<<800, 800, <<1, 2>>>>}

InitThumb ==
    /\ topology \in {"circle", "square"}
    /\ stage = "caller"
    /\ gm = GmIdle
    /\ \E c \in ThumbCalls :
          th = ThEnter(c[1], c[2], Path(topology, "thumbnail.webp"), c[3][1], c[3][2])
    /\ globals = NoGlobals
    /\ dirs = {OutputDir(topology)}
    /\ files = NoFiles
    /\ open = {}
    /\ stdout = <<>>
    /\ io = <<>>
    /\ pil = "unknown"

\* the caller receives True or False
ThumbReturn ==
    /\ stage = "caller"
    /\ th.pc = "return"
    /\ globals' = Assign(globals, "thumbnail_ok", th.result)
    /\ th' = [th EXCEPT !.pc = "idle", !.pixels = <<>>]
    /\ stage' = "done"
    /\ UNCHANGED <<topology, gm, dirs, files, open, stdout, io, pil>>

NextThumb == ThImportOk \/ ThImportError \/ ThRow \/ ThSave \/ ThPrint \/ ThumbReturn

SpecThumb == InitThumb /\ [][NextThumb]_vars

----------------------------------------------------------------------------
(* The module-level statements of the two scripts.                          *)
(* The scripts generate maps of side 800, 400 and 200; a state that holds    *)
(* those rasters holds 840000 bytes.  The model runs the scripts with every  *)
(* literal length n of the module-level code (map sides, nation coordinates) *)
(* replaced by Scaled(n) = n * FullSize / 800, which keeps the sides in the  *)
(* ratio 4 : 2 : 1 and every coordinate at the same relative position.       *)
(* FullSize = 800 is the scripts themselves.                                 *)

Scaled(n) == (n * FullSize) \div 800

\* the "coordinates" of the four nations in create_manifest, as written
NationCoordinates == <<<<400, 100>>, <<700, 400>>, <<400, 700>>, <<100, 400>>>>

ScaledCoordinates(k) == <<Scaled(NationCoordinates[k][1]), Scaled(NationCoordinates[k][2])>>

\* create_manifest(land_tiles_full, land_tiles_4x, land_tiles_16x)
create_manifest_swapped(land_tiles_full, land_tiles_4x, land_tiles_16x) ==
    [name   |-> "Square Map",
     map    |-> [width |-> Scaled(800), height |-> Scaled(800), num_land_tiles |-> land_tiles_full],
     map4x  |-> [width |-> Scaled(400), height |-> Scaled(400), num_land_tiles |-> land_tiles_16x],
     map16x |-> [width |-> Scaled(200), height |-> Scaled(200), num_land_tiles |-> land_tiles_4x],
     nations |-> <<
        [coordinates |-> ScaledCoordinates(1), flag |-> "", name |-> "Northland", strength |-> 2],
        [coordinates |-> ScaledCoordinates(2), flag |-> "", name |-> "Eastland", strength |-> 2],
        [coordinates |-> ScaledCoordinates(3), flag |-> "", name |-> "Southland", strength |-> 2],
        [coordinates |-> ScaledCoordinates(4), flag |-> "", name |-> "Westland", strength |-> 2]>>]
create_manifest(land_tiles_full, land_tiles_4x, land_tiles_16x) ==
    [name   |-> "Square Map",
     map    |-> [width |-> Scaled(800), height |-> Scaled(800), num_land_tiles |-> land_tiles_full],
     map4x  |-> [width |-> Scaled(400), height |-> Scaled(400), num_land_tiles |-> land_tiles_4x],
     map16x |-> [width |-> Scaled(200), height |-> Scaled(200), num_land_tiles |-> land_tiles_16x],
     nations |-> <<
        [coordinates |-> ScaledCoordinates(1), flag |-> "", name |-> "Northland", strength |-> 2],
        [coordinates |-> ScaledCoordinates(2), flag |-> "", name |-> "Eastland", strength |-> 2],
        [coordinates |-> ScaledCoordinates(3), flag |-> "", name |-> "Southland", strength |-> 2],
        [coordinates |-> ScaledCoordinates(4), flag |-> "", name |-> "Westland", strength |-> 2]>>]

\* the three statements "land_tiles_... = generate_map(size, size, f'{output_dir}/...')"
GenStages == {"gen_full", "gen_4x", "gen_16x"}

GenCall(st) ==
    CASE st = "gen_full" -> [size |-> Scaled(800), name |-> "map.bin", var |-> "land_tiles_full"]
      [] st = "gen_4x"   -> [size |-> Scaled(400), name |-> "map4x.bin", var |-> "land_tiles_4x"]
      [] st = "gen_16x"  -> [size |-> Scaled(200), name |-> "map16x.bin", var |-> "land_tiles_16x"]

\* the statement that follows st
StageAfter(topo, st) ==
    CASE st = "makedirs" -> "gen_full"
      [] st = "gen_full" -> "gen_4x"
      [] st = "gen_4x"   -> "gen_16x"
      [] st = "gen_16x"  -> IF topo = "square" THEN "create_manifest" ELSE "thumbnail"
      [] st = "create_manifest" -> "manifest_open"
      [] st = "manifest_open"   -> "manifest_dump"
      [] st = "manifest_dump"   -> "manifest_close"
      [] st = "manifest_close"  -> "thumbnail"
      [] st = "thumbnail" -> "report"
      [] st = "report"    -> "done"

\* output_dir and the directories above it
DirChain(topo) == <<"resources", "resources/maps", OutputDir(topo)>>

\* os.makedirs(output_dir, exist_ok=True)
Makedirs ==
    /\ stage = "makedirs"
    /\ dirs' = dirs \cup {DirChain(topology)[i] : i \in 1..3}
    /\ io' = Append(io, <<"makedirs", OutputDir(topology)>>)
    /\ stage' = StageAfter(topology, stage)
    /\ UNCHANGED <<topology, gm, th, globals, files, open, stdout, pil>>

\* generate_map(size, size, path) is called
CallGenerateMap ==
    /\ stage \in GenStages
    /\ gm.pc = "idle"
    /\ gm' = GmEnter(GenCall(stage).size, GenCall(stage).size,
                     Path(topology, GenCall(stage).name))
    /\ UNCHANGED <<topology, stage, th, globals, dirs, files, open, stdout, io, pil>>

\* land_tiles_... = the returned land_count
AssignLandTiles ==
    /\ stage \in GenStages
    /\ gm.pc = "return"
    /\ globals' = Assign(globals, GenCall(stage).var, gm.land_count)
    /\ gm' = GmIdle
    /\ stage' = StageAfter(topology, stage)
    /\ UNCHANGED <<topology, th, dirs, files, open, stdout, io, pil>>

\* manifest = create_manifest(land_tiles_full, land_tiles_4x, land_tiles_16x)
CreateManifest ==
    /\ stage = "create_manifest"
    /\ globals' = Assign(globals, "manifest",
                         create_manifest(globals["land_tiles_full"],
                                         globals["land_tiles_4x"],
                                         globals["land_tiles_16x"]))
    /\ stage' = StageAfter(topology, stage)
    /\ UNCHANGED <<topology, gm, th, dirs, files, open, stdout, io, pil>>

\* with open(f'{output_dir}/manifest.json', 'w') as f
ManifestOpen ==
    /\ stage = "manifest_open"
    /\ LET path == Path(topology, "manifest.json")
       IN  /\ files' = [p \in DOMAIN files \cup {path} |->
                           IF p = path THEN <<>> ELSE files[p]]
           /\ open' = open \cup {path}
           /\ io' = Append(io, <<"open", path>>)
    /\ stage' = StageAfter(topology, stage)
    /\ UNCHANGED <<topology, gm, th, globals, dirs, stdout, pil>>

\* json.dump(manifest, f, indent=2): the file holds the one document
ManifestDump ==
    /\ stage = "manifest_dump"
    /\ LET path == Path(topology, "manifest.json")
       IN  /\ files' = [files EXCEPT ![path] = Append(@, globals["manifest"])]
           /\ io' = Append(io, <<"write", path>>)
    /\ stage' = StageAfter(topology, stage)
    /\ UNCHANGED <<topology, gm, th, globals, dirs, open, stdout, pil>>

\* the with block ends
ManifestClose ==
    /\ stage = "manifest_close"
    /\ LET path == Path(topology, "manifest.json")
       IN  /\ open' = open \ {path}
           /\ io' = Append(io, <<"close", path>>)
    /\ stage' = StageAfter(topology, stage)
    /\ UNCHANGED <<topology, gm, th, globals, dirs, files, stdout, pil>>

\* generate_thumbnail(800, 800, f'{output_dir}/thumbnail.webp'), quality 0.5
CallThumbnail ==
    /\ stage = "thumbnail"
    /\ th.pc = "idle"
    /\ th' = ThEnter(Scaled(800), Scaled(800), Path(topology, "thumbnail.webp"), 1, 2)
    /\ UNCHANGED <<topology, stage, gm, globals, dirs, files, open, stdout, io, pil>>

\* the call returns; its value is not used
ThumbnailDone ==
    /\ stage = "thumbnail"
    /\ th.pc = "return"
    /\ th' = ThIdle
    /\ stage' = StageAfter(topology, stage)
    /\ UNCHANGED <<topology, gm, globals, dirs, files, open, stdout, io, pil>>

\* the closing print statements
Report ==
    /\ stage = "report"
    /\ stdout' = stdout \o
          << <<"Land tile counts:">>,
             <<"Full (800x800)", globals["land_tiles_full"]>>,
             <<"4x (400x400)", globals["land_tiles_4x"]>>,
             <<"16x (200x200)", globals["land_tiles_16x"]>>,
             IF topology = "square" THEN <<"Manifest created at", OutputDir(topology)>>
                                    ELSE <<"Update these values in manifest.json">> >>
    /\ stage' = StageAfter(topology, stage)
    /\ UNCHANGED <<topology, gm, th, globals, dirs, files, open, io, pil>>

InitPipe ==
    /\ topology \in {"circle", "square"}
    /\ stage = "makedirs"
    /\ gm = GmIdle
    /\ th = ThIdle
    /\ globals = NoGlobals
    /\ \E n \in 0..3 : dirs = {DirChain(topology)[i] : i \in 1..n}
    /\ files = NoFiles
    /\ open = {}
    /\ stdout = <<>>
    /\ io = <<>>
    /\ pil = "unknown"

NextPipe ==
    \/ Makedirs
    \/ CallGenerateMap \/ GmRow \/ GmOpen \/ GmWrite \/ GmClose \/ GmPrint
    \/ AssignLandTiles
    \/ CreateManifest \/ ManifestOpen \/ ManifestDump \/ ManifestClose
    \/ CallThumbnail \/ ThImportOk \/ ThImportError \/ ThRow \/ ThSave \/ ThPrint
    \/ ThumbnailDone
    \/ Report

SpecPipe == InitPipe /\ [][NextPipe]_vars

----------------------------------------------------------------------------
(* Properties of the raster of one generate_map call (SpecGen) *)

\* tile coordinates of the i-th byte (1-based) of a row-major raster of width w
TileX(i, w) == (i - 1) % w
TileY(i, w) == (i - 1) \div w

HasBit(b, bit) == BitAnd(b, bit) = bit

\* min(31, raw) of the tile's unclamped magnitude
ClampedMagnitude(topo, width, height, x, y) ==
    LET m   == Min(width, height)
        raw == IF topo = "circle"
               THEN IF Circle_is_land(width, height, x, y)
                    THEN Circle_land_raw(Dist2x4(width, height, x, y), m)
                    ELSE Circle_water_raw(Dist2x4(width, height, x, y), m)
               ELSE IF Square_is_land(width, height, x, y)
                    THEN IF Square_in_crystal(width, height, x, y)
                         THEN Square_crystal_raw(Cheb2(width, height, x, y), m)
                         ELSE 0
                    ELSE Square_water_raw(Cheb2(width, height, x, y), m)
    IN  IF raw > 31 THEN 31 ELSE raw

RawExceeds31(topo, width, height, x, y) ==
    LET m == Min(width, height)
    IN  IF topo = "circle"
        THEN /\ ~Circle_is_land(width, height, x, y)
             /\ Circle_water_raw(Dist2x4(width, height, x, y), m) > 31
        ELSE /\ ~Square_is_land(width, height, x, y)
             /\ Square_water_raw(Cheb2(width, height, x, y), m) > 31

ByteWellFormed(b, topo, width, height, x, y) ==
    /\ ~(HasBit(b, LAND_BASE) /\ HasBit(b, OCEAN_BASE))
    /\ ~HasBit(b, SHORE_BIT)
    /\ BitAnd(b, MAG_MASK) \in 0..31
    /\ BitAnd(b, MAG_MASK) = ClampedMagnitude(topo, width, height, x, y)
    /\ b \in 0..255

\* C1: in the list generate_map builds and in the file it writes, for either
\* topology and every width and height, no byte has both the land bit and the
\* ocean bit, the shoreline bit is 0, and byte AND 0x1F is in 0..31 and is the
\* tile's magnitude clamped to 31.
C1_PackedByteWellFormed ==
    gm.pc # "idle" =>
        /\ \A i \in 1..Len(gm.terrain) :
              ByteWellFormed(gm.terrain[i], topology, gm.width, gm.height,
                             TileX(i, gm.width), TileY(i, gm.width))
        /\ \A p \in DOMAIN files : \A i \in 1..Len(files[p]) :
              ByteWellFormed(files[p][i], topology, gm.width, gm.height,
                             TileX(i, gm.width), TileY(i, gm.width))

\* a written raster holds a tile whose unclamped magnitude is above 31
C1_Witness ==
    /\ gm.pc = "return"
    /\ \E i \in 1..Len(files[gm.output_file]) :
          /\ RawExceeds31(topology, gm.width, gm.height,
                          TileX(i, gm.width), TileY(i, gm.width))
          /\ BitAnd(files[gm.output_file][i], MAG_MASK) = 31

\* the tile's distance compared with the boundary parameter, both scaled alike:
\* circular 25*sqrt(D2) against 22*min (squared), square 5*c2 against 4*min
BoundaryLhs(topo, width, height, x, y) ==
    IF topo = "circle" THEN 625 * Dist2x4(width, height, x, y)
                       ELSE 5 * Cheb2(width, height, x, y)
BoundaryRhs(topo, width, height) ==
    IF topo = "circle" THEN 484 * Min(width, height) * Min(width, height)
                       ELSE 4 * Min(width, height)

\* C3: a tile at exactly the boundary distance (Euclidean = min*0.44, Chebyshev =
\* min*0.40) is land, and a tile is water only when its distance is strictly
\* greater than the boundary.
C3_BoundaryTileIsLand ==
    gm.pc # "idle" =>
        \A i \in 1..Len(gm.terrain) :
            LET lhs == BoundaryLhs(topology, gm.width, gm.height,
                                   TileX(i, gm.width), TileY(i, gm.width))
                rhs == BoundaryRhs(topology, gm.width, gm.height)
                b   == gm.terrain[i]
            IN  /\ lhs = rhs => HasBit(b, LAND_BASE)
                /\ ~HasBit(b, LAND_BASE) => lhs > rhs
                /\ HasBit(b, LAND_BASE) => lhs <= rhs

\* a circular raster holds a land tile at exactly the radius
C3_Witness ==
    /\ topology = "circle"
    /\ gm.pc = "return"
    /\ \E i \in 1..Len(gm.terrain) :
          /\ BoundaryLhs(topology, gm.width, gm.height,
                         TileX(i, gm.width), TileY(i, gm.width))
               = BoundaryRhs(topology, gm.width, gm.height)
          /\ HasBit(gm.terrain[i], LAND_BASE)

\* C4: the file generate_map has written and closed holds exactly width*height
\* bytes and nothing else, and the byte at index y*width + x is the packed byte
\* of tile (x, y).
C4_RasterIsRowMajor ==
    gm.pc \in {"print", "return"} =>
        LET f == files[gm.output_file]
        IN  /\ Len(f) = gm.width * gm.height
            /\ \A x \in 0..(gm.width - 1) : \A y \in 0..(gm.height - 1) :
                  f[y * gm.width + x + 1] = TileByte(topology, gm.width, gm.height, x, y)

\* a raster that is not square, with more than one row and column, was written
C4_Witness ==
    /\ gm.pc = "return"
    /\ gm.width > 1 /\ gm.height > 1 /\ gm.width # gm.height
    /\ Len(files[gm.output_file]) = gm.width * gm.height
    /\ \E i \in 1..(gm.width * gm.height - 1) :
          files[gm.output_file][i] # files[gm.output_file][i + 1]

LandTruncIs(k, d2, m) ==
    /\ k \in 0..20
    /\ 62500 * d2 <= ((20 - k) * 11 * m) * ((20 - k) * 11 * m)
    /\ k < 20 => 62500 * d2 > ((19 - k) * 11 * m) * ((19 - k) * 11 * m)

\* min(31, trunc((d - radius)/100 * 20)) = k:  5*k <= d - radius < 5*(k+1),
\* the upper limit dropped at the clamp
WaterClampedTruncIs(k, d2, m) ==
    /\ k \in 0..31
    /\ (250 * k + 22 * m) * (250 * k + 22 * m) <= 625 * d2
    /\ k < 31 => 625 * d2 < (250 * (k + 1) + 22 * m) * (250 * (k + 1) + 22 * m)

\* C7: circular topology: a land tile has magnitude
\* min(31, trunc((radius - d)/radius * 20)), a water tile
\* min(31, trunc((d - radius)/100 * 20)), truncated toward zero and never rounded
\* to nearest; for width = height = 4 tile (2,2) is 148 and tile (0,0) is 32.
C7_CircleMagnitudeTruncated ==
    (topology = "circle" /\ gm.pc # "idle") =>
        /\ \A i \in 1..Len(gm.terrain) :
              LET d2 == Dist2x4(gm.width, gm.height, TileX(i, gm.width), TileY(i, gm.width))
                  m  == Min(gm.width, gm.height)
                  b  == gm.terrain[i]
              IN  IF 625 * d2 <= 484 * m * m
                  THEN b >= 128 /\ LandTruncIs(b - 128, d2, m)
                  ELSE b < 128 /\ WaterClampedTruncIs(b - 32, d2, m)
        /\ (gm.width = 4 /\ gm.height = 4 /\ Len(gm.terrain) = 16) =>
              (gm.terrain[2 * 4 + 2 + 1] = 148 /\ gm.terrain[1] = 32)

\* the 4x4 circular raster is complete
C7_Witness ==
    /\ topology = "circle"
    /\ gm.pc = "return"
    /\ gm.width = 4 /\ gm.height = 4
    /\ gm.terrain[11] = 148
    /\ gm.terrain[1] = 32

----------------------------------------------------------------------------
(* Properties of generate_thumbnail called on its own (SpecThumb) *)

ThumbPath == Path(topology, "thumbnail.webp")

\* the target size is computed in th
ThDimsSet == th.pc \in {"loop", "save", "print"} \/ (th.pc \in {"return", "idle"} /\ th.result)

\* C8 as amended: the thumbnail's width and height are each
\* max(1, floor(floor(map dimension / 2) * quality)), never below 1; the saved
\* image has that size; at the default quality 1/2 that is a quarter of the
\* full-resolution dimension on each axis, 200x200 for the 800x800 map.
C8_ThumbnailDims ==
    ThDimsSet =>
        /\ th.target_width = Max(1, ((th.map_width \div 2) * th.qnum) \div th.qden)
        /\ th.target_height = Max(1, ((th.map_height \div 2) * th.qnum) \div th.qden)
        /\ th.target_width >= 1 /\ th.target_height >= 1
        /\ ThumbPath \in DOMAIN files =>
              /\ files[ThumbPath].width = th.target_width
              /\ files[ThumbPath].height = th.target_height
              /\ Len(files[ThumbPath].pixels) = th.target_height
              /\ \A r \in 1..th.target_height :
                    Len(files[ThumbPath].pixels[r]) = th.target_width
        /\ (th.qnum = 1 /\ th.qden = 2) =>
              /\ th.target_width = Max(1, th.map_width \div 4)
              /\ th.target_height = Max(1, th.map_height \div 4)
        /\ (th.qnum = 1 /\ th.qden = 2 /\ th.map_width = 800 /\ th.map_height = 800) =>
              (th.target_width = 200 /\ th.target_height = 200)

\* the call the scripts make has saved its image
C8_Witness ==
    /\ th.pc = "return"
    /\ th.result
    /\ th.map_width = 800 /\ th.map_height = 800 /\ th.qnum = 1 /\ th.qden = 2
    /\ ThumbPath \in DOMAIN files
    /\ files[ThumbPath].width = 200

\* C8 as stated: the size is max(1, floor(quarter-resolution dimension * quality))
\* and, at the default quality, about 1/8 of the full-resolution dimension on
\* each axis: about 100x100 for the 800x800 map.
C8_Original ==
    ThDimsSet =>
        /\ th.target_width = Max(1, ((th.map_width \div 2) * th.qnum) \div th.qden)
        /\ th.target_height = Max(1, ((th.map_height \div 2) * th.qnum) \div th.qden)
        /\ (th.qnum = 1 /\ th.qden = 2 /\ th.map_width = 800 /\ th.map_height = 800) =>
              (th.target_width \in 99..101 /\ th.target_height \in 99..101)

----------------------------------------------------------------------------
(* Properties of the scripts (SpecPipe) *)

LandBitSet(b) == (b \div 128) % 2 = 1

\* the number of bytes of a raster with the land bit set
CountLand(raster) == Cardinality({i \in 1..Len(raster) : LandBitSet(raster[i])})

ManifestPath == Path(topology, "manifest.json")

\* the manifest's entry for the resolution generated at stage st
ManifestEntry(manifest, st) ==
    CASE st = "gen_full" -> manifest.map
      [] st = "gen_4x"   -> manifest.map4x
      [] st = "gen_16x"  -> manifest.map16x

ManifestWritten == ManifestPath \in DOMAIN files /\ Len(files[ManifestPath]) = 1

\* C2: square script: for map (800x800), map4x (400x400) and map16x (200x200),
\* each at its side in the model,
\* the count assigned from generate_map is the number of land-bit bytes in that
\* resolution's file, and the manifest built and the manifest written carry that
\* count under that resolution's key.
C2_ManifestMatchesRasters ==
    (topology = "square" /\ gm.pc = "idle" /\ th.pc = "idle") =>
        \A st \in GenStages :
            LET c    == GenCall(st)
                path == Path(topology, c.name)
            IN  /\ c.var \in DOMAIN globals =>
                      /\ path \in DOMAIN files
                      /\ Len(files[path]) = c.size * c.size
                      /\ globals[c.var] = CountLand(files[path])
                /\ "manifest" \in DOMAIN globals =>
                      /\ ManifestEntry(globals["manifest"], st).num_land_tiles = globals[c.var]
                      /\ ManifestEntry(globals["manifest"], st).width = c.size
                      /\ ManifestEntry(globals["manifest"], st).height = c.size
                /\ ManifestWritten =>
                      /\ ManifestEntry(files[ManifestPath][1], st).num_land_tiles
                            = CountLand(files[path])
                      /\ ManifestEntry(files[ManifestPath][1], st).width = c.size
                      /\ ManifestEntry(files[ManifestPath][1], st).height = c.size

\* the square script has finished with three different counts in its manifest
C2_Witness ==
    /\ topology = "square"
    /\ stage = "done"
    /\ ManifestWritten
    /\ files[ManifestPath][1].map.num_land_tiles > files[ManifestPath][1].map4x.num_land_tiles
    /\ files[ManifestPath][1].map4x.num_land_tiles > files[ManifestPath][1].map16x.num_land_tiles
    /\ files[ManifestPath][1].map16x.num_land_tiles > 0

RasterNames == {"map.bin", "map4x.bin", "map16x.bin"}

RasterSize(name) ==
    CASE name = "map.bin" -> Scaled(800)
      [] name = "map4x.bin" -> Scaled(400)
      [] name = "map16x.bin" -> Scaled(200)

\* a raster file is in place: written in full and closed
RasterProduced(name) ==
    /\ Path(topology, name) \in DOMAIN files
    /\ Path(topology, name) \notin open
    /\ Len(files[Path(topology, name)]) = RasterSize(name) * RasterSize(name)

PrintedWarning ==
    \E i \in 1..Len(stdout) :
        stdout[i][1] = "Warning: PIL not installed, cannot generate thumbnail"

\* C5: either script, when the import of the image library fails: the warning is
\* printed, generate_thumbnail returns False and writes no file, the three
\* rasters (and the square script's manifest) are in place, nothing is raised, and
\* the script goes on until its closing report is printed.
C5_ThumbnailSkippedGracefully ==
    pil = "absent" =>
        /\ PrintedWarning
        /\ \A name \in RasterNames : RasterProduced(name)
        /\ topology = "square" => (ManifestWritten /\ ManifestPath \notin open)
        /\ ThumbPath \notin DOMAIN files
        /\ th.pc \in {"return", "idle"} /\ ~th.result
        /\ gm.pc = "idle"
        /\ stage \in {"thumbnail", "report", "done"}
        /\ stage # "done" => ENABLED NextPipe
        /\ stage = "done" =>
              stdout[Len(stdout)][1] \in {"Manifest created at",
                                          "Update these values in manifest.json"}

\* the square script has finished without the image library
C5_Witness ==
    /\ pil = "absent"
    /\ topology = "square"
    /\ stage = "done"
    /\ ManifestWritten
    /\ \A name \in RasterNames : RasterProduced(name)

FileOps(name) ==
    <<<<"open", Path("square", name)>>, <<"write", Path("square", name)>>,
      <<"close", Path("square", name)>>>>

\* the file-system operations of a whole run of the square script
SquareRunIO ==
    <<<<"makedirs", OutputDir("square")>>>>
      \o FileOps("map.bin") \o FileOps("map4x.bin") \o FileOps("map16x.bin")
      \o FileOps("manifest.json") \o FileOps("thumbnail.webp")

IsPrefix(s, t) == Len(s) <= Len(t) /\ \A i \in 1..Len(s) : s[i] = t[i]

\* C9: square script: the directory is created before any file is written; the
\* rasters are written full, 4x, 16x; the manifest is written once, after the
\* three generate_map calls have returned their counts; every file is opened,
\* written and closed before the next step, so at most one file is open.
C9_SquareStepOrder ==
    topology = "square" =>
        /\ IsPrefix(io, SquareRunIO)
        /\ Cardinality(open) <= 1
        /\ DOMAIN files # {} => OutputDir(topology) \in dirs
        /\ ManifestPath \in DOMAIN files =>
              /\ {"land_tiles_full", "land_tiles_4x", "land_tiles_16x", "manifest"}
                    \subseteq DOMAIN globals
              /\ gm.pc = "idle"
              /\ \A name \in RasterNames : RasterProduced(name)
        /\ (gm.pc \in {"idle", "loop", "open"} /\ stage \notin {"manifest_dump", "manifest_close"})
              => open = {}
        /\ stage \in {"thumbnail", "report", "done"} => ManifestWritten

\* the square script has finished, the image library present
C9_Witness ==
    /\ topology = "square"
    /\ stage = "done"
    /\ io = SquareRunIO

\* the Chebyshev distance of (x, y) from the centre (size/2, size/2), doubled
ChebFromCentre2(size, x, y) == Max(Abs(2 * x - size), Abs(2 * y - size))

\* C10: each of the four nation coordinates of the written manifest, (400,100),
\* (700,400), (400,700), (100,400), indexes a tile of the 800x800 square raster
\* inside the land square (Chebyshev distance from (400,400) <= 320) and outside
\* the crystal zone (> 80), whose byte is exactly 0x80: for the coordinates and
\* the size written in the script, and, in the run, for the coordinates of the
\* written manifest and the bytes of the written full-resolution raster.
C10_NationsOnPlainLand ==
    /\ \A k \in 1..Len(NationCoordinates) :
          LET x == NationCoordinates[k][1]
              y == NationCoordinates[k][2]
              d == Max(Abs(x - 400), Abs(y - 400))
          IN  /\ x \in 0..799 /\ y \in 0..799
              /\ d <= 320 /\ d > 80
              /\ Square_byte(800, 800, x, y) = 128
    /\ (topology = "square" /\ ManifestWritten) =>
          LET nations == files[ManifestPath][1].nations
              size    == files[ManifestPath][1].map.width
              raster  == files[Path(topology, "map.bin")]
          IN  /\ Len(nations) = Len(NationCoordinates)
              /\ Len(raster) = size * size
              /\ \A k \in 1..Len(nations) :
                    LET x == nations[k].coordinates[1]
                        y == nations[k].coordinates[2]
                    IN  /\ nations[k].coordinates = ScaledCoordinates(k)
                        /\ x \in 0..(size - 1) /\ y \in 0..(size - 1)
                        /\ 5 * ChebFromCentre2(size, x, y) <= 4 * size
                        /\ 5 * ChebFromCentre2(size, x, y) > size
                        /\ raster[y * size + x + 1] = 128

\* the manifest is written beside the full-resolution raster, which has land in
\* its crystal zone and water around its land
C10_Witness ==
    /\ topology = "square"
    /\ ManifestWritten
    /\ Len(files[ManifestPath][1].nations) = 4
    /\ LET raster == files[Path(topology, "map.bin")]
       IN  /\ Len(raster) = Scaled(800) * Scaled(800)
           /\ \E i \in 1..Len(raster) : raster[i] > 128
           /\ \E i \in 1..Len(raster) : raster[i] < 128

====
